---- MODULE Spec2Model ----
(***************************************************************************)
(* Model of the knowledge-graph pipeline and its web front end:            *)
(*  - the client-side subgraph reducer reduceCore of PaperDetail.tsx,      *)
(*  - the per-document entity registry of the extraction pipeline,         *)
(*  - the stage cache of the pipeline orchestrator,                        *)
(*  - the provider ensemble of the entity extractor,                       *)
(*  - the offset bookkeeping of the sentence segmenter,                    *)
(*  - the graph dashboard driven by clicks and by voice tool events,       *)
(*  - the data loading of the paper detail view,                           *)
(*  - the event stream handling of the scientist sidebar,                  *)
(*  - the loading overlay of the cluster graph view,                       *)
(*  - the sessions of the voice client,                                    *)
(*  - the resolution of tool-event parameters to a cluster id.             *)
(* Each part has its own variables and its own specification; a            *)
(* specification leaves the variables of the other parts at rest.          *)
(***************************************************************************)
EXTENDS Integers, Sequences, FiniteSets, TLC

\* ==== state
\* the reducer: its input, its budget, its result
VARIABLES core, limit, view, pc
\* the entity registry of one document run and its flat mention list
VARIABLES registry, mentions
\* the staged pipeline: cached artifacts per (document, stage) and the run in progress
VARIABLES artifacts, run, before
\* the entity extractor: the (sentence, provider) call in turn, the mentions kept, the failures logged
VARIABLES cursor, found, failures, extraction
\* the sentence segmenter: the retained sections, the section in turn, the sentences emitted
VARIABLES sections, segAt, sentences
\* the graph dashboard: its React state, the timeouts it has set, the tool-event handler the voice session holds
VARIABLES viewState, pendingFocusClusterId, pendingPaperId, queuedPaperId, lastClusterRequestedId, delayedOpenTimer, timeouts, voiceActive, onToolEvent, sessions
\* the paper detail view: its paper, its React state, the load under way
VARIABLES paper, summary, error, loading, overviewGraph, load
\* the scientist sidebar: Date.now(), the event stream, its refs, the chat, the tool events passed on, and the history of what was appended and which events were dropped or suppressed
VARIABLES clock, streamOpen, dropBeforeTsRef, lastUserRef, lastBotRef, messages, forwarded, chatLog, received, outcomes
\* the cluster graph view: mounted or not, the number of nodes of its graph, the loading overlay, the build under way (its listeners, its fallback timer), the builds whose overlay was cleared, the zero-delay timeouts pending, and which path cleared the overlay of the build
VARIABLES mounted, nodeCount, isLayingOut, build, layout, cleared, readyTimeouts, clearedBy
\* the voice client: every session started, by the place its startVoiceSession call has reached
VARIABLES voice
\* the cluster resolver: the parameters of a tool event, the clusters loaded, the id resolved
VARIABLES params, graphData, resolved

reducerVars == <<core, limit, view, pc>>
registryVars == <<registry, mentions>>
pipelineVars == <<artifacts, run, before>>
extractorVars == <<cursor, found, failures, extraction>>
segmenterVars == <<sections, segAt, sentences>>
dashboardVars == <<viewState, pendingFocusClusterId, pendingPaperId, queuedPaperId, lastClusterRequestedId, delayedOpenTimer, timeouts, voiceActive, onToolEvent, sessions>>
detailVars == <<paper, summary, error, loading, overviewGraph, load>>
sidebarVars == <<clock, streamOpen, dropBeforeTsRef, lastUserRef, lastBotRef, messages, forwarded, chatLog, received, outcomes>>
graphviewVars == <<mounted, nodeCount, isLayingOut, build, layout, cleared, readyTimeouts, clearedBy>>
voiceVars == <<voice>>
resolverVars == <<params, graphData, resolved>>

vars == <<reducerVars, registryVars, pipelineVars, extractorVars, segmenterVars, dashboardVars, detailVars, sidebarVars, graphviewVars, voiceVars, resolverVars>>

\* the reducer part before it has done anything
ReducerAtRest ==
  /\ core = [nodes |-> [def |-> FALSE, val |-> <<>>], edges |-> [def |-> FALSE, val |-> <<>>]]
  /\ limit = 0
  /\ view = [status |-> "none", nodes |-> <<>>, edges |-> <<>>]
  /\ pc = "idle"

\* the registry part before it has done anything
RegistryAtRest ==
  /\ registry = <<>>
  /\ mentions = <<>>

\* the pipeline part before it has done anything
PipelineAtRest ==
  /\ artifacts = <<>>
  /\ run = [n |-> 0, doc |-> "", overwrite |-> FALSE, cursor |-> 0]
  /\ before = <<>>

\* the extractor part before it has done anything
ExtractorAtRest ==
  /\ cursor = [s |-> 1, p |-> 1]
  /\ found = {}
  /\ failures = {}
  /\ extraction = "idle"

\* the segmenter part before it has done anything
SegmenterAtRest ==
  /\ sections = <<>>
  /\ segAt = 1
  /\ sentences = <<>>

\* the dashboard part before it has done anything
DashboardAtRest ==
  /\ viewState = [level |-> "universe", selectedClusterId |-> "null", selectedPaperId |-> "null"]
  /\ pendingFocusClusterId = "null"
  /\ pendingPaperId = "null"
  /\ queuedPaperId = "null"
  /\ lastClusterRequestedId = "null"
  /\ delayedOpenTimer = 0
  /\ timeouts = {}
  /\ voiceActive = FALSE
  /\ onToolEvent = [level |-> "universe", selectedClusterId |-> "null", queuedPaperId |-> "null", lastClusterRequestedId |-> "null", delayedOpenTimer |-> 0]
  /\ sessions = 0

\* the detail part before it has done anything
DetailAtRest ==
  /\ paper = "null"
  /\ summary = "null"
  /\ error = "null"
  /\ loading = TRUE
  /\ overviewGraph = "null"
  /\ load = [pc |-> "unmounted", summary |-> "null", setSummary |-> FALSE, thrown |-> "null"]

\* the sidebar part before it has done anything
SidebarAtRest ==
  /\ clock = 0
  /\ streamOpen = FALSE
  /\ dropBeforeTsRef = 0
  /\ lastUserRef = [set |-> FALSE, text |-> "", t |-> 0]
  /\ lastBotRef = [set |-> FALSE, text |-> "", t |-> 0]
  /\ messages = <<>>
  /\ forwarded = 0
  /\ chatLog = <<>>
  /\ received = 0
  /\ outcomes = {}

\* the graphview part before it has done anything
GraphViewAtRest ==
  /\ mounted = FALSE
  /\ nodeCount = 0
  /\ isLayingOut = TRUE
  /\ build = 0
  /\ layout = [listeners |-> {}, fallback |-> FALSE]
  /\ cleared = {}
  /\ readyTimeouts = {}
  /\ clearedBy = "none"

\* the voice part before it has done anything
VoiceAtRest ==
  /\ voice = <<>>

\* the resolver part before it has done anything
ResolverAtRest ==
  /\ params = <<>>
  /\ graphData = <<>>
  /\ resolved = <<"pending">>

\* the parts a step of the reducer part leaves alone
reducerOthers == <<registryVars, pipelineVars, extractorVars, segmenterVars, dashboardVars, detailVars, sidebarVars, graphviewVars, voiceVars, resolverVars>>
ReducerOthersAtRest == RegistryAtRest /\ PipelineAtRest /\ ExtractorAtRest /\ SegmenterAtRest /\ DashboardAtRest /\ DetailAtRest /\ SidebarAtRest /\ GraphViewAtRest /\ VoiceAtRest /\ ResolverAtRest

\* the parts a step of the registry part leaves alone
registryOthers == <<reducerVars, pipelineVars, extractorVars, segmenterVars, dashboardVars, detailVars, sidebarVars, graphviewVars, voiceVars, resolverVars>>
RegistryOthersAtRest == ReducerAtRest /\ PipelineAtRest /\ ExtractorAtRest /\ SegmenterAtRest /\ DashboardAtRest /\ DetailAtRest /\ SidebarAtRest /\ GraphViewAtRest /\ VoiceAtRest /\ ResolverAtRest

\* the parts a step of the pipeline part leaves alone
pipelineOthers == <<reducerVars, registryVars, extractorVars, segmenterVars, dashboardVars, detailVars, sidebarVars, graphviewVars, voiceVars, resolverVars>>
PipelineOthersAtRest == ReducerAtRest /\ RegistryAtRest /\ ExtractorAtRest /\ SegmenterAtRest /\ DashboardAtRest /\ DetailAtRest /\ SidebarAtRest /\ GraphViewAtRest /\ VoiceAtRest /\ ResolverAtRest

\* the parts a step of the extractor part leaves alone
extractorOthers == <<reducerVars, registryVars, pipelineVars, segmenterVars, dashboardVars, detailVars, sidebarVars, graphviewVars, voiceVars, resolverVars>>
ExtractorOthersAtRest == ReducerAtRest /\ RegistryAtRest /\ PipelineAtRest /\ SegmenterAtRest /\ DashboardAtRest /\ DetailAtRest /\ SidebarAtRest /\ GraphViewAtRest /\ VoiceAtRest /\ ResolverAtRest

\* the parts a step of the segmenter part leaves alone
segmenterOthers == <<reducerVars, registryVars, pipelineVars, extractorVars, dashboardVars, detailVars, sidebarVars, graphviewVars, voiceVars, resolverVars>>
SegmenterOthersAtRest == ReducerAtRest /\ RegistryAtRest /\ PipelineAtRest /\ ExtractorAtRest /\ DashboardAtRest /\ DetailAtRest /\ SidebarAtRest /\ GraphViewAtRest /\ VoiceAtRest /\ ResolverAtRest

\* the parts a step of the dashboard part leaves alone
dashboardOthers == <<reducerVars, registryVars, pipelineVars, extractorVars, segmenterVars, detailVars, sidebarVars, graphviewVars, voiceVars, resolverVars>>
DashboardOthersAtRest == ReducerAtRest /\ RegistryAtRest /\ PipelineAtRest /\ ExtractorAtRest /\ SegmenterAtRest /\ DetailAtRest /\ SidebarAtRest /\ GraphViewAtRest /\ VoiceAtRest /\ ResolverAtRest

\* the parts a step of the detail part leaves alone
detailOthers == <<reducerVars, registryVars, pipelineVars, extractorVars, segmenterVars, dashboardVars, sidebarVars, graphviewVars, voiceVars, resolverVars>>
DetailOthersAtRest == ReducerAtRest /\ RegistryAtRest /\ PipelineAtRest /\ ExtractorAtRest /\ SegmenterAtRest /\ DashboardAtRest /\ SidebarAtRest /\ GraphViewAtRest /\ VoiceAtRest /\ ResolverAtRest

\* the parts a step of the sidebar part leaves alone
sidebarOthers == <<reducerVars, registryVars, pipelineVars, extractorVars, segmenterVars, dashboardVars, detailVars, graphviewVars, voiceVars, resolverVars>>
SidebarOthersAtRest == ReducerAtRest /\ RegistryAtRest /\ PipelineAtRest /\ ExtractorAtRest /\ SegmenterAtRest /\ DashboardAtRest /\ DetailAtRest /\ GraphViewAtRest /\ VoiceAtRest /\ ResolverAtRest

\* the parts a step of the graphview part leaves alone
graphviewOthers == <<reducerVars, registryVars, pipelineVars, extractorVars, segmenterVars, dashboardVars, detailVars, sidebarVars, voiceVars, resolverVars>>
GraphViewOthersAtRest == ReducerAtRest /\ RegistryAtRest /\ PipelineAtRest /\ ExtractorAtRest /\ SegmenterAtRest /\ DashboardAtRest /\ DetailAtRest /\ SidebarAtRest /\ VoiceAtRest /\ ResolverAtRest

\* the parts a step of the voice part leaves alone
voiceOthers == <<reducerVars, registryVars, pipelineVars, extractorVars, segmenterVars, dashboardVars, detailVars, sidebarVars, graphviewVars, resolverVars>>
VoiceOthersAtRest == ReducerAtRest /\ RegistryAtRest /\ PipelineAtRest /\ ExtractorAtRest /\ SegmenterAtRest /\ DashboardAtRest /\ DetailAtRest /\ SidebarAtRest /\ GraphViewAtRest /\ ResolverAtRest

\* the parts a step of the resolver part leaves alone
resolverOthers == <<reducerVars, registryVars, pipelineVars, extractorVars, segmenterVars, dashboardVars, detailVars, sidebarVars, graphviewVars, voiceVars>>
ResolverOthersAtRest == ReducerAtRest /\ RegistryAtRest /\ PipelineAtRest /\ ExtractorAtRest /\ SegmenterAtRest /\ DashboardAtRest /\ DetailAtRest /\ SidebarAtRest /\ GraphViewAtRest /\ VoiceAtRest
\* ==== end of state

\* ---------------------------------------------------------------- bounds
MaxNodes == 3
MaxEdges == 2
\* budgets tried: 0 up to one more than the largest graph has nodes
MaxLimit == MaxNodes + 1
\* freq values of a node; 0 stands for a node without freq
Freqs == {0, 1, 2}

\* ------------------------------------------------------------ JS helpers
Min(a, b) == IF a < b THEN a ELSE b
Max(a, b) == IF a > b THEN a ELSE b

\* String(x) of a non-negative integer id: its decimal digits.
RECURSIVE String(_)
String(n) == IF n < 10 THEN <<n>> ELSE String(n \div 10) \o <<n % 10>>

\* An optional array field of a JSON object: def = FALSE is `undefined`.
Undefined == [def |-> FALSE, val |-> <<>>]
Arr(s) == [def |-> TRUE, val |-> s]

\* variant of OrEmpty without the `|| []` default
OrEmptyNone(x) == x

\* `x || []`
OrEmpty(x) == IF x.def THEN x ELSE Arr(<<>>)

\* variant of Slice0 that ignores the end index
Slice0NoCap(s, end) == s

\* Array.prototype.slice(0, end)
Slice0(s, end) ==
  LET e == IF end < 0 THEN Max(Len(s) + end, 0) ELSE Min(end, Len(s))
  IN SubSeq(s, 1, e)

\* ------------------------------------------------------------ reduceCore
\* edges.forEach(e => { deg[s]++; deg[t]++ }) read back as deg[key] || 0
RECURSIVE deg(_, _)
deg(edges, key) ==
  IF edges = <<>> THEN 0
  ELSE (IF String(Head(edges).source) = key THEN 1 ELSE 0)
     + (IF String(Head(edges).target) = key THEN 1 ELSE 0)
     + deg(Tail(edges), key)

\* `n.freq || 1` (freq 0 stands for a missing or zero freq)
freqOr1(n) == IF n.freq = 0 THEN 1 ELSE n.freq

\* nodes.map(n => ({ n, d: deg[String(n.id)]||0, f: n.freq||1 })), nodes being
\* the field-by-field copy of core.nodes
score(nodes, edges) ==
  [i \in 1..Len(nodes) |->
     [n |-> nodes[i], d |-> deg(edges, String(nodes[i].id)), f |-> freqOr1(nodes[i])]]

\* variants of cmp: without the frequency key, without the degree key, and
\* with the degree ascending
cmpDegreeOnly(a, b) == b.d - a.d
cmpFreqOnly(a, b) == b.f - a.f
cmpAscending(a, b) == IF a.d - b.d # 0 THEN a.d - b.d ELSE b.f - a.f

\* comparator (a,b) => (b.d - a.d) || (b.f - a.f)
cmp(a, b) == IF b.d - a.d # 0 THEN b.d - a.d ELSE b.f - a.f

\* Array.prototype.sort is stable: element i ends up behind every element
\* that compares smaller, and behind the earlier elements that compare equal.
sortIndex(s, i) ==
  1 + Cardinality({j \in 1..Len(s) :
                     \/ cmp(s[j], s[i]) < 0
                     \/ cmp(s[j], s[i]) = 0 /\ j < i})

sort(s) ==
  [k \in 1..Len(s) |-> s[CHOOSE i \in 1..Len(s) : sortIndex(s, i) = k]]

\* new Set(scored.slice(0, limit).map(s => String(s.n.id)))
sel(scored, lim) ==
  LET top == Slice0(scored, lim) IN {String(top[i].n.id) : i \in 1..Len(top)}

\* variants of outNodes: one that skips the nodes without any relation, and
\* one that gives every node the nav of the first
outNodesLinked(scored, lim) ==
  LET top == SelectSeq(Slice0(scored, lim), LAMBDA s : s.d > 0)
  IN [i \in 1..Len(top) |->
        [id |-> top[i].n.id, label |-> top[i].n.label,
         type |-> top[i].n.type, nav |-> top[i].n.nav]]

outNodesFirstNav(scored, lim) ==
  LET top == Slice0(scored, lim)
  IN [i \in 1..Len(top) |->
        [id |-> top[i].n.id, label |-> top[i].n.label,
         type |-> top[i].n.type, nav |-> top[1].n.nav]]

\* scored.slice(0, limit).map(s => ({ id, label, type, nav }))
outNodes(scored, lim) ==
  LET top == Slice0(scored, lim)
  IN [i \in 1..Len(top) |->
        [id |-> top[i].n.id, label |-> top[i].n.label,
         type |-> top[i].n.type, nav |-> top[i].n.nav]]

\* variant of keepEdge that asks for one endpoint only
keepEdgeAny(S, e) == String(e.source) \in S \/ String(e.target) \in S

\* filter predicate: sel.has(String(e.source)) && sel.has(String(e.target))
keepEdge(S, e) == String(e.source) \in S /\ String(e.target) \in S

\* edges.filter(e => sel.has(String(e.source)) && sel.has(String(e.target)))
RECURSIVE filterEdges(_, _)
filterEdges(edges, S) ==
  IF edges = <<>> THEN <<>>
  ELSE (IF keepEdge(S, Head(edges)) THEN <<Head(edges)>> ELSE <<>>)
       \o filterEdges(Tail(edges), S)

\* `e.id || `e${i}`` (id 0 stands for a missing id)
edgeId(e, i) == IF e.id # 0 THEN <<"id", e.id>> ELSE <<"e", i>>

\* .map((e, i) => ({ id: e.id || `e${i}`, source: e.source, target: e.target }))
outEdges(edges, S) ==
  LET kept == filterEdges(edges, S)
  IN [i \in 1..Len(kept) |->
        [id |-> edgeId(kept[i], i - 1), source |-> kept[i].source, target |-> kept[i].target]]

NoView == [status |-> "none", nodes |-> <<>>, edges |-> <<>>]
TypeError == [status |-> "TypeError", nodes |-> <<>>, edges |-> <<>>]

\* function reduceCore(core, limit): calling .map / .forEach on undefined throws
reduceCore(c, lim) ==
  LET nodes == OrEmpty(c.nodes)
      edges == OrEmpty(c.edges)
  IN IF ~nodes.def \/ ~edges.def THEN TypeError
     ELSE LET scored == sort(score(nodes.val, edges.val))
          IN [status |-> "ok",
              nodes |-> outNodes(scored, lim),
              edges |-> outEdges(edges.val, sel(scored, lim))]

\* ---------------------------------------------------------------- inputs
\* nav of the entity with the given id (graph_core.json node schema)
NavOf(id) ==
  [section |-> IF id % 2 = 1 THEN "RESULTS" ELSE "METHODS",
   sentence_id |-> 100 + id,
   char_start |-> 1000 * id,
   char_end |-> 1000 * id + 9,
   anchor |-> <<"PMC", 1000 * id, 1000 * id + 9>>]

Node(id, f) ==
  [id |-> id, label |-> <<"label", id>>,
   type |-> IF id % 3 = 0 THEN "PHENOTYPE" ELSE "GENE_PRODUCT",
   freq |-> f, nav |-> NavOf(id)]

\* The node lists of up to MaxNodes entities with ids 1..n, in ascending or in
\* descending id order (reduceCore uses an id only to match edge endpoints, so
\* the two orders cover the ways id order and file order can agree or differ).
NodeLists ==
  UNION {{[i \in 1..n |-> Node(IF rev THEN n + 1 - i ELSE i, f[i])]
          : f \in [1..n -> Freqs], rev \in BOOLEAN}
         : n \in 0..MaxNodes}

\* The relation joining entities a < b; reduceCore treats source and target
\* alike, the direction alternates with the pair.
Relation(a, b) == IF (a + b) % 2 = 1 THEN <<a, b>> ELSE <<b, a>>

\* relations join two distinct entities; several relations may join one pair
EdgeLists(n) ==
  LET Pairs == {Relation(st[1], st[2]) : st \in {p \in (1..n) \X (1..n) : p[1] < p[2]}}
  IN UNION {{[i \in 1..m |-> [id |-> 300 + i, type |-> "COOCCURS_SENT",
                               source |-> q[i][1], target |-> q[i][2]]]
             : q \in [1..m -> Pairs]} : m \in 0..MaxEdges}

\* every relation of a core joins two of its entities
WellFormed(ns, es) ==
  \A i \in 1..Len(es) :
    /\ \E k \in 1..Len(ns) : ns[k].id = es[i].source
    /\ \E k \in 1..Len(ns) : ns[k].id = es[i].target

\* ----------------------------------------------------------- transitions
\* a graph_core.json document; a core may also lack its nodes or edges field
Init ==
  /\ ReducerOthersAtRest
  /\ \E ns \in NodeLists, es \in EdgeLists(MaxNodes) :
       \/ WellFormed(ns, es) /\ core = [nodes |-> Arr(ns), edges |-> Arr(es)]
       \/ es = <<>> /\ core = [nodes |-> Arr(ns), edges |-> Undefined]
       \/ ns = <<>> /\ core = [nodes |-> Undefined, edges |-> Arr(es)]
       \/ ns = <<>> /\ es = <<>> /\ core = [nodes |-> Undefined, edges |-> Undefined]
  /\ limit \in 0..MaxLimit
  /\ view = NoView
  /\ pc = "fetched"

\* const reduced = reduceCore(coreJson, limit); setOverviewGraph(reduced)
Reduce ==
  /\ pc = "fetched"
  /\ view' = reduceCore(core, limit)
  /\ pc' = "reduced"
  /\ UNCHANGED <<core, limit>>
  /\ UNCHANGED reducerOthers

Next == Reduce

Spec == Init /\ [][Next]_vars

\* ------------------------------------------------ hub scenario (10 nodes)
\* ascending sequence of a finite set of integers
RECURSIVE Asc(_)
Asc(S) ==
  IF S = {} THEN <<>>
  ELSE LET m == CHOOSE x \in S : \A y \in S : x <= y IN <<m>> \o Asc(S \ {m})

\* Core with ids 1..10: hub x joined once to each of the 6 nodes of N, the 3
\* remaining nodes joined among themselves as mask says, one node with freq 2
\* (boost 1: the last neighbour of the hub, boost 2: the last remaining node,
\* boost 0: none), nodes listed in ascending or descending id order.
HubCore(x, N, mask, boost, rev) ==
  LET ids == Asc(1..10)
      order == IF rev THEN [i \in 1..10 |-> ids[11 - i]] ELSE ids
      nb == Asc(N)
      rest == Asc((1..10) \ (N \cup {x}))
      pairs == << <<rest[1], rest[2]>>, <<rest[2], rest[3]>>, <<rest[3], rest[1]>> >>
      hubE == [i \in 1..6 |-> IF nb[i] % 2 = 1 THEN <<x, nb[i]>> ELSE <<nb[i], x>>]
      extraIx == Asc({i \in 1..3 : mask[i]})
      all == hubE \o [i \in 1..Len(extraIx) |-> pairs[extraIx[i]]]
      b == IF boost = 1 THEN nb[6] ELSE IF boost = 2 THEN rest[3] ELSE 0
  IN [nodes |-> Arr([i \in 1..10 |-> Node(order[i], IF order[i] = b THEN 2 ELSE 1)]),
      edges |-> Arr([i \in 1..Len(all) |->
                      [id |-> 300 + i, type |-> "COOCCURS_SENT",
                       source |-> all[i][1], target |-> all[i][2]]])]

InitHub ==
  /\ ReducerOthersAtRest
  /\ \E x \in 1..10 :
       \E N \in {S \in SUBSET ((1..10) \ {x}) : Cardinality(S) = 6} :
         \E mask \in [1..3 -> BOOLEAN], boost \in 0..2, rev \in BOOLEAN :
           core = HubCore(x, N, mask, boost, rev)
  /\ limit = 5
  /\ view = NoView
  /\ pc = "fetched"

SpecHub == InitHub /\ [][Next]_vars

\* ------------------------------------------------------------ properties
\* what the properties read off the input graph and the view
InNodes == core.nodes.val
InEdges == core.edges.val
InIds == {InNodes[i].id : i \in 1..Len(InNodes)}
ViewIds == {view.nodes[i].id : i \in 1..Len(view.nodes)}
Reduced == pc = "reduced"

\* number of relation endpoints at the entity id in the input graph
Degree(id) ==
  Cardinality({i \in 1..Len(InEdges) : InEdges[i].source = id})
  + Cardinality({i \in 1..Len(InEdges) : InEdges[i].target = id})

\* position of the entity id in the input node list
PosOf(id) == CHOOSE k \in 1..Len(InNodes) : InNodes[k].id = id
Freq(id) == IF InNodes[PosOf(id)].freq = 0 THEN 1 ELSE InNodes[PosOf(id)].freq

\* C1: the view holds at most B nodes.
BudgetInv == Reduced => Len(view.nodes) <= limit

BudgetWitness ==
  Reduced /\ limit > 0 /\ Len(InNodes) > limit /\ Len(view.nodes) = limit

\* nodes of the view reachable from the set R along the view's own edges
RECURSIVE ReachFrom(_)
ReachFrom(R) ==
  LET step == R \cup {view.edges[i].target : i \in {j \in 1..Len(view.edges) : view.edges[j].source \in R}}
                \cup {view.edges[i].source : i \in {j \in 1..Len(view.edges) : view.edges[j].target \in R}}
  IN IF step = R THEN R ELSE ReachFrom(step)

\* C2: a view with at least one edge is a single connected component.
ConnectedInv ==
  (Reduced /\ Len(view.edges) >= 1) => \A a \in ViewIds : ReachFrom({a}) = ViewIds

\* C3: the view's edges are exactly the input edges, in input order, whose
\* two endpoints are both nodes of the view.
InducedInv ==
  Reduced =>
    /\ \A i \in 1..Len(view.edges) :
         view.edges[i].source \in ViewIds /\ view.edges[i].target \in ViewIds
    /\ [i \in 1..Len(view.edges) |-> <<view.edges[i].source, view.edges[i].target>>]
       = LET in == SelectSeq(InEdges, LAMBDA e : e.source \in ViewIds /\ e.target \in ViewIds)
         IN [i \in 1..Len(in) |-> <<in[i].source, in[i].target>>]

InducedWitness ==
  /\ Reduced /\ Len(view.edges) >= 1 /\ Len(view.edges) < Len(InEdges)
  /\ \E i \in 1..Len(InEdges) : InEdges[i].source \in ViewIds /\ InEdges[i].target \notin ViewIds

\* a precedes b by degree descending, then frequency descending, then id ascending
PrecedesById(a, b) ==
  \/ Degree(a) > Degree(b)
  \/ Degree(a) = Degree(b) /\ Freq(a) > Freq(b)
  \/ Degree(a) = Degree(b) /\ Freq(a) = Freq(b) /\ a < b

\* a precedes b by degree descending, then frequency descending, then position
\* in the input node list ascending
PrecedesByPos(a, b) ==
  \/ Degree(a) > Degree(b)
  \/ Degree(a) = Degree(b) /\ Freq(a) > Freq(b)
  \/ Degree(a) = Degree(b) /\ Freq(a) = Freq(b) /\ PosOf(a) < PosOf(b)

\* C4 as stated: the view is the first min(B, n) nodes by degree descending,
\* frequency descending, node id ascending.
RankByIdInv ==
  (Reduced /\ core.nodes.def) =>
    /\ Cardinality(ViewIds) = Min(limit, Len(InNodes))
    /\ \A s \in ViewIds : \A u \in InIds \ ViewIds : ~PrecedesById(u, s)

\* C4 amended: the view is the first min(B, n) nodes by degree descending,
\* frequency descending (a missing frequency counts as 1), then position in
\* the input node list ascending, listed in that order.
RankByPosInv ==
  (Reduced /\ core.nodes.def) =>
    /\ Len(view.nodes) = Min(limit, Len(InNodes))
    /\ ViewIds \subseteq InIds
    /\ \A s \in ViewIds : \A u \in InIds \ ViewIds : PrecedesByPos(s, u)
    /\ \A i, j \in 1..Len(view.nodes) :
         i < j => PrecedesByPos(view.nodes[i].id, view.nodes[j].id)

\* a tie on degree and frequency is decided between a kept and a dropped node,
\* and a frequency difference is decided at equal degree
RankWitness ==
  /\ Reduced /\ limit >= 1
  /\ \E s \in ViewIds : \E u \in InIds \ ViewIds :
       Degree(s) = Degree(u) /\ Freq(s) = Freq(u) /\ u < s
  /\ \E s \in ViewIds : \E u \in InIds \ ViewIds :
       Degree(s) = Degree(u) /\ Freq(s) > Freq(u) /\ PosOf(u) < PosOf(s)

\* the input is the hub scenario: 10 nodes, one of degree 6, the others of
\* degree at most 3
IsHub(x) ==
  /\ Len(InNodes) = 10 /\ Cardinality(InIds) = 10
  /\ x \in InIds /\ Degree(x) = 6
  /\ \A y \in InIds \ {x} : Degree(y) <= 3

IsPath(a, b, c) ==
  /\ InIds = {a, b, c} /\ Cardinality({a, b, c}) = 3 /\ Len(InNodes) = 3
  /\ Len(InEdges) = 2
  /\ {{InEdges[i].source, InEdges[i].target} : i \in 1..2} = {{a, b}, {b, c}}

\* C7: the path a - b - c reduced to B = 2 is {a, b} or {b, c} with the one
\* edge that joins the two nodes kept.
PathInv ==
  (Reduced /\ limit = 2) =>
    \A a, b, c \in InIds :
      IsPath(a, b, c) =>
        /\ Len(view.nodes) = 2
        /\ ViewIds = {a, b} \/ ViewIds = {b, c}
        /\ Len(view.edges) = 1
        /\ {view.edges[1].source, view.edges[1].target} = ViewIds

\* the end node with the larger id and the later position is the one kept
PathWitness ==
  /\ Reduced /\ limit = 2
  /\ \E a, b, c \in InIds :
       /\ IsPath(a, b, c) /\ ViewIds = {b, c} /\ a < c
       /\ Freq(c) > Freq(a) /\ PosOf(a) < PosOf(c)

\* C8: a view without edges keeps all min(B, n) selected nodes.
IsolatedInv ==
  (Reduced /\ Len(view.edges) = 0) =>
    /\ Len(view.nodes) = Min(limit, Len(InNodes))
    /\ Cardinality(ViewIds) = Len(view.nodes)

\* several nodes are kept although no edge joins any two of them
IsolatedWitness ==
  /\ Reduced /\ Len(view.edges) = 0 /\ Len(view.nodes) >= 2
  /\ \A a \in ViewIds : ReachFrom({a}) = {a}

\* C9: a node of the view carries the nav of the input node with its id.
NavInv ==
  Reduced =>
    \A i \in 1..Len(view.nodes) :
      \E k \in 1..Len(InNodes) :
        InNodes[k].id = view.nodes[i].id /\ InNodes[k].nav = view.nodes[i].nav

\* the view lists the nodes in another order than the input does
NavWitness ==
  /\ Reduced /\ Len(view.nodes) >= 2
  /\ \E i \in 1..Len(view.nodes) : view.nodes[i].id # InNodes[i].id

\* C10: a graph without nodes or without edges (the field empty or missing)
\* reduces without an error to a view without edges, empty if without nodes.
DegenerateInv ==
  (Reduced /\ (Len(InNodes) = 0 \/ Len(InEdges) = 0)) =>
    /\ view.status = "ok"
    /\ view.edges = <<>>
    /\ Len(InNodes) = 0 => view.nodes = <<>>
    /\ Len(view.nodes) = Min(limit, Len(InNodes))

\* the edges field is missing and the nodes are still returned
DegenerateWitness ==
  Reduced /\ ~core.edges.def /\ view.status = "ok" /\ Len(view.nodes) >= 2

\* the nodes field is missing and the view is empty
DegenerateWitnessNoNodes ==
  Reduced /\ ~core.nodes.def /\ Len(InEdges) >= 1 /\ view.status = "ok" /\ view.nodes = <<>>

\* ======================================================= entity registry
\* mentions merged in one run at most
MaxMerges == 4

\* surface texts of mentions, as character sequences
Surfaces ==
  { <<"I", "L">>, <<"i", "l">>, <<"I", "l">>,
    <<"n", "f", " ", "k">>, <<"N", "F", " ", " ", "K">>, <<"a", "t", "p">> }

\* lower-casing of one character
Lower(c) ==
  CASE c = "I" -> "i" [] c = "L" -> "l" [] c = "N" -> "n"
    [] c = "F" -> "f" [] c = "K" -> "k" [] OTHER -> c

\* collapsing of every run of blanks into one blank
RECURSIVE Collapse(_)
Collapse(s) ==
  IF Len(s) <= 1 THEN s
  ELSE IF s[1] = " " /\ s[2] = " " THEN Collapse(Tail(s))
       ELSE <<s[1]>> \o Collapse(Tail(s))

\* canonical key: the surface text lower-cased and whitespace-collapsed
CanonicalKey(surface) == Collapse([i \in 1..Len(surface) |-> Lower(surface[i])])

\* variant of Lookup that compares the key with the newest entity only
LookupNewest(reg, key) ==
  IF reg # <<>> /\ reg[Len(reg)].key = key THEN Len(reg) ELSE 0

\* index of the entity with the given key in the registry, 0 if there is none
Lookup(reg, key) ==
  IF \E i \in 1..Len(reg) : reg[i].key = key
  THEN CHOOSE i \in 1..Len(reg) : reg[i].key = key
  ELSE 0

\* merging one surviving mention m into the registry reg
MergeMention(reg, m) ==
  LET key == CanonicalKey(m.surface)
      at == Lookup(reg, key)
  IN IF at # 0
     THEN [reg EXCEPT ![at] =
             [@ EXCEPT !.freq = @ + 1,
                       !.offsets = Append(@, m.offset),
                       !.anchor = IF m.conf > reg[at].conf THEN m.offset ELSE @,
                       !.conf = IF m.conf > @ THEN m.conf ELSE @]]
     ELSE Append(reg, [id |-> Len(reg) + 1, key |-> key, freq |-> 1,
                       offsets |-> <<m.offset>>, anchor |-> m.offset, conf |-> m.conf])

\* a document run starts with an empty registry
InitRegistry ==
  /\ RegistryAtRest
  /\ RegistryOthersAtRest

\* one mention of the document is merged
Merge ==
  /\ Len(mentions) < MaxMerges
  /\ \E surface \in Surfaces, conf \in 1..2 :
       LET m == [surface |-> surface, conf |-> conf, offset |-> 10 * (Len(mentions) + 1)]
       IN /\ registry' = MergeMention(registry, m)
          /\ mentions' = Append(mentions, m)
  /\ UNCHANGED registryOthers

NextRegistry == Merge

SpecRegistry == InitRegistry /\ [][NextRegistry]_vars

\* number of merged mentions whose surface text has the canonical key k
MentionsOf(k) == Cardinality({i \in 1..Len(mentions) : CanonicalKey(mentions[i].surface) = k})

MaxRuns == 3

Docs == {"PMC1", "PMC2"}

\* the phases of kg_creator, in running order
Stages == <<"phase1", "phase2", "phase3", "phase4", "phase5">>

\* an artifact file: missing, or written by run number `by`
NoArtifact == [exists |-> FALSE, by |-> 0]
Artifact(n) == [exists |-> TRUE, by |-> n]

\* variant of StageSkipped with the overwrite flag read the wrong way round
StageSkippedOnOverwrite(arts, doc, k, overwrite) == arts[doc][k].exists /\ overwrite

\* a stage is skipped when its artifact exists and overwrite is not set
StageSkipped(arts, doc, k, overwrite) == arts[doc][k].exists /\ ~overwrite

NoRun == [n |-> 0, doc |-> "", overwrite |-> FALSE, cursor |-> 0]

\* no document has been processed yet
InitPipeline ==
  /\ artifacts = [d \in Docs |-> [k \in 1..Len(Stages) |-> NoArtifact]]
  /\ run = NoRun
  /\ before = artifacts
  /\ PipelineOthersAtRest

\* the orchestrator is started for one document
StartRun ==
  /\ run.cursor = 0
  /\ run.n < MaxRuns
  /\ \E d \in Docs, ow \in BOOLEAN :
       run' = [n |-> run.n + 1, doc |-> d, overwrite |-> ow, cursor |-> 1]
  /\ before' = artifacts
  /\ UNCHANGED artifacts
  /\ UNCHANGED pipelineOthers

\* the stage at the cursor is run: skipped, or its artifact is written
RunStage ==
  /\ run.cursor \in 1..Len(Stages)
  /\ artifacts' =
       IF StageSkipped(artifacts, run.doc, run.cursor, run.overwrite)
       THEN artifacts
       ELSE [artifacts EXCEPT ![run.doc][run.cursor] = Artifact(run.n)]
  /\ run' = [run EXCEPT !.cursor = IF @ = Len(Stages) THEN 0 ELSE @ + 1]
  /\ UNCHANGED before
  /\ UNCHANGED pipelineOthers

\* the run is interrupted before the stage at the cursor
AbortRun ==
  /\ run.cursor \in 2..Len(Stages)
  /\ run' = [run EXCEPT !.cursor = 0]
  /\ UNCHANGED <<artifacts, before>>
  /\ UNCHANGED pipelineOthers

NextPipeline == StartRun \/ RunStage \/ AbortRun

SpecPipeline == InitPipeline /\ [][NextPipeline]_vars

MaxSentences == 3

\* the extraction providers in priority order
Providers == <<"hf", "spacy">>

\* the call after (s, p): the next provider on s, else the first provider on
\* the next sentence; the sentence after the last one ends the run
NextCall(c) ==
  IF c.p < Len(Providers) THEN [s |-> c.s, p |-> c.p + 1] ELSE [s |-> c.s + 1, p |-> 1]

\* variant of AfterFailure that gives up the sentence of the failed call
AfterFailureNextSentence(c) == [s |-> c.s + 1, p |-> 1]

\* where extraction continues after the call c threw or timed out
AfterFailure(c) == NextCall(c)

\* the run state once the cursor has moved to c
StatusAt(c) == IF c.s > MaxSentences THEN "done" ELSE "running"

InitExtractor ==
  /\ cursor = [s |-> 1, p |-> 1]
  /\ found = {}
  /\ failures = {}
  /\ extraction = "running"
  /\ ExtractorOthersAtRest

\* the provider in turn returns its spans for the sentence in turn
ProviderReturns ==
  /\ extraction = "running"
  /\ found' = found \cup {<<cursor.s, Providers[cursor.p]>>}
  /\ cursor' = NextCall(cursor)
  /\ extraction' = StatusAt(cursor')
  /\ UNCHANGED failures
  /\ UNCHANGED extractorOthers

\* the provider in turn throws or times out; the failure is caught and logged
ProviderFails ==
  /\ extraction = "running"
  /\ \E kind \in {"exception", "timeout"} :
       failures' = failures \cup {<<cursor.s, Providers[cursor.p], kind>>}
  /\ cursor' = AfterFailure(cursor)
  /\ extraction' = StatusAt(cursor')
  /\ UNCHANGED found
  /\ UNCHANGED extractorOthers

NextExtractor == ProviderReturns \/ ProviderFails

SpecExtractor == InitExtractor /\ [][NextExtractor]_vars

\* the calls made so far: every provider on every sentence before the cursor
Called ==
  {<<c[1], Providers[c[2]]>> :
     c \in {d \in (1..MaxSentences) \X (1..Len(Providers)) :
              d[1] < cursor.s \/ (d[1] = cursor.s /\ d[2] < cursor.p)}}

FailedCalls == {<<f[1], f[2]>> : f \in failures}

\* C13: the run is never aborted; each call so far either failed or has its
\* result kept, so a failure costs the result of that provider on that
\* sentence only; when the run is done every provider was called on every
\* sentence, and a sentence whose providers all failed has no mention.
ProviderFailureInv ==
  /\ extraction \in {"idle", "running", "done"}
  /\ extraction # "idle" =>
       /\ found \cup FailedCalls = Called
       /\ found \cap FailedCalls = {}
  /\ extraction = "done" =>
       /\ Called = {<<s, Providers[p]>> : s \in 1..MaxSentences, p \in 1..Len(Providers)}
       /\ \A s \in 1..MaxSentences :
            (\A p \in 1..Len(Providers) : <<s, Providers[p]>> \in FailedCalls)
              => ~\E m \in found : m[1] = s

\* the first provider failed on sentence 1 and the second still delivered, all
\* providers failed on sentence 2, sentence 3 was processed normally
ProviderFailureWitness ==
  /\ extraction = "done"
  /\ <<1, "hf">> \in FailedCalls /\ <<1, "spacy">> \in found
  /\ <<2, "hf">> \in FailedCalls /\ <<2, "spacy">> \in FailedCalls
  /\ <<3, "hf">> \in found /\ <<3, "spacy">> \in found

\* ====================================================== sentence segmenter
\* retained sections of a document at most
MaxSections == 3

\* section texts, as character sequences
SectionTexts ==
  { <<"a", ".">>,
    <<"a", "b", ".", " ", "c", ".">>,
    <<" ", "d", ".", "e">>,
    <<"f", " ", "g">>,
    <<".", ".">>,
    <<>> }

\* the separator written between two sections of the document text
Separator == <<"/">>

\* s[a:b], offsets counted from 0, b exclusive
Slice(s, a, b) == SubSeq(s, a + 1, b)

\* the document text: the retained sections joined by the separator
RECURSIVE DocumentText(_)
DocumentText(secs) ==
  IF secs = <<>> THEN <<>>
  ELSE IF Len(secs) = 1 THEN secs[1]
  ELSE secs[1] \o Separator \o DocumentText(Tail(secs))

\* variant of Baseline that forgets the separators
BaselineNoSeparator(secs, k) ==
  LET lens == [j \in 1..(k - 1) |-> Len(secs[j])]
      sum[j \in 0..(k - 1)] == IF j = 0 THEN 0 ELSE sum[j - 1] + lens[j]
  IN sum[k - 1]

\* global baseline of section k: the length of the sections retained before
\* it, separators included
Baseline(secs, k) ==
  LET lens == [j \in 1..(k - 1) |-> Len(secs[j]) + Len(Separator)]
      sum[j \in 0..(k - 1)] == IF j = 0 THEN 0 ELSE sum[j - 1] + lens[j]
  IN sum[k - 1]

\* sentence boundaries of a section text from index i on, `from` the index of
\* the first character of the sentence under way (0: none): a sentence starts
\* at a non-blank character and ends with the next full stop or with the text
RECURSIVE Boundaries(_, _, _)
Boundaries(text, i, from) ==
  IF i > Len(text)
  THEN IF from = 0 THEN <<>> ELSE <<[ss |-> from - 1, se |-> Len(text)]>>
  ELSE IF from = 0 /\ text[i] = " " THEN Boundaries(text, i + 1, 0)
  ELSE LET st == IF from = 0 THEN i ELSE from
       IN IF text[i] = "."
          THEN <<[ss |-> st - 1, se |-> i]>> \o Boundaries(text, i + 1, 0)
          ELSE Boundaries(text, i + 1, st)

\* the sentence records of section k, numbered after the n sentences so far
SentencesOf(secs, k, n) ==
  LET spans == Boundaries(secs[k], 1, 0)
      base == Baseline(secs, k)
  IN [i \in 1..Len(spans) |->
        [sid |-> n + i, section_index |-> k,
         text |-> Slice(secs[k], spans[i].ss, spans[i].se),
         char_start_section |-> spans[i].ss, char_end_section |-> spans[i].se,
         char_start_global |-> spans[i].ss + base, char_end_global |-> spans[i].se + base]]

InitSegmenter ==
  /\ \E n \in 1..MaxSections : sections \in [1..n -> SectionTexts]
  /\ segAt = 1
  /\ sentences = <<>>
  /\ SegmenterOthersAtRest

\* the section in turn is split into sentences
SegmentSection ==
  /\ segAt <= Len(sections)
  /\ sentences' = sentences \o SentencesOf(sections, segAt, Len(sentences))
  /\ segAt' = segAt + 1
  /\ UNCHANGED sections
  /\ UNCHANGED segmenterOthers

NextSegmenter == SegmentSection

SpecSegmenter == InitSegmenter /\ [][NextSegmenter]_vars

\* C14: for every sentence the document text at its global offsets, its
\* section's text at its section offsets and its own text are equal, and its
\* global offsets are its section offsets plus the section's baseline; the
\* sentence ids count up from 1.
OffsetRoundTripInv ==
  \A i \in 1..Len(sentences) :
    LET x == sentences[i]
        sec == sections[x.section_index]
        lenBefore == Len(DocumentText(SubSeq(sections, 1, x.section_index))) - Len(sec)
    IN /\ x.sid = i
       /\ Slice(DocumentText(sections), x.char_start_global, x.char_end_global) = x.text
       /\ Slice(sec, x.char_start_section, x.char_end_section) = x.text
       /\ x.char_start_global = x.char_start_section + lenBefore
       /\ x.char_end_global = x.char_end_section + lenBefore
       /\ x.char_start_section < x.char_end_section

\* a sentence that starts inside the third section, behind an empty section
OffsetRoundTripWitness ==
  /\ Len(sections) = 3 /\ segAt = 4
  /\ sections[2] = <<>>
  /\ \E i \in 1..Len(sentences) :
       /\ sentences[i].section_index = 3
       /\ sentences[i].char_start_section > 0
       /\ sentences[i].char_start_global > sentences[i].char_start_section + 2

\* ========================================================= graph dashboard
\* timeouts outstanding at once at most
MaxTimeouts == 2
\* voice sessions started at most
MaxSessions == 1

Null == "null"
Clusters == {"c1", "c2"}
Papers == {"p1", "p2", "p3"}

\* paper.clusterId of the loaded graph data
ClusterOf(pid) == IF pid = "p3" THEN "c2" ELSE "c1"

\* useState initial values of GraphDashboard
Universe == [level |-> "universe", selectedClusterId |-> Null, selectedPaperId |-> Null]

\* what the onToolEvent closure of the current render has captured
Closure ==
  [level |-> viewState.level, selectedClusterId |-> viewState.selectedClusterId,
   queuedPaperId |-> queuedPaperId, lastClusterRequestedId |-> lastClusterRequestedId,
   delayedOpenTimer |-> delayedOpenTimer]

\* the handler of no voice session
NoHandler ==
  [level |-> "universe", selectedClusterId |-> Null, queuedPaperId |-> Null,
   lastClusterRequestedId |-> Null, delayedOpenTimer |-> 0]

\* the timeouts set fit
Room == Cardinality(timeouts') <= MaxTimeouts

\* window.setTimeout: a timer id never handed out before
NewTimer(ts) ==
  CHOOSE n \in 1..(MaxTimeouts + 3) :
    /\ n \notin {t.id : t \in ts} \cup {delayedOpenTimer, onToolEvent.delayedOpenTimer}
    /\ \A m \in 1..(n - 1) :
         m \in {t.id : t \in ts} \cup {delayedOpenTimer, onToolEvent.delayedOpenTimer}

\* window.clearTimeout(id)
clearTimeout(ts, id) == {t \in ts : t.id # id}

\* clearDelayTimer as called from a closure that holds `timer` as
\* delayedOpenTimer: the timeouts left
clearDelayTimer(timer, ts) == IF timer # 0 THEN clearTimeout(ts, timer) ELSE ts

\* the effect on [viewState.level]: entering the topic view clears the delay
\* timer of the current render, the queued and the pending paper
EnterTopic(vs, ts) ==
  /\ viewState' = vs
  /\ timeouts' = clearDelayTimer(delayedOpenTimer, ts)
  /\ delayedOpenTimer' = 0
  /\ queuedPaperId' = Null
  /\ pendingPaperId' = Null

InitDashboard ==
  /\ viewState = Universe
  /\ pendingFocusClusterId = Null /\ pendingPaperId = Null /\ queuedPaperId = Null
  /\ lastClusterRequestedId = Null /\ delayedOpenTimer = 0
  /\ timeouts = {}
  /\ voiceActive = FALSE
  /\ onToolEvent = NoHandler
  /\ sessions = 0
  /\ DashboardOthersAtRest

\* handleClusterClick
handleClusterClick(cid) == [level |-> "cluster", selectedClusterId |-> cid, selectedPaperId |-> Null]

\* handlePaperClick of the current render
handlePaperClick(pid) == [viewState EXCEPT !.level = "topic", !.selectedPaperId = pid]

\* handleBackToCluster of a render whose viewState is vs
handleBackToCluster(vs) ==
  [level |-> "cluster", selectedClusterId |-> vs.selectedClusterId, selectedPaperId |-> Null]

\* a cluster is clicked in the universe view
ClickCluster ==
  /\ viewState.level = "universe"
  /\ \E cid \in Clusters : viewState' = handleClusterClick(cid)
  /\ UNCHANGED <<pendingFocusClusterId, pendingPaperId, queuedPaperId, lastClusterRequestedId,
                 delayedOpenTimer, timeouts, voiceActive, onToolEvent, sessions>>
  /\ UNCHANGED dashboardOthers

\* ClusterView finishes the focus animation it was asked for
FocusCluster ==
  /\ viewState.level = "universe"
  /\ pendingFocusClusterId # Null
  /\ viewState' = handleClusterClick(pendingFocusClusterId)
  /\ UNCHANGED <<pendingFocusClusterId, pendingPaperId, queuedPaperId, lastClusterRequestedId,
                 delayedOpenTimer, timeouts, voiceActive, onToolEvent, sessions>>
  /\ UNCHANGED dashboardOthers

\* a paper of the shown cluster is tapped in GraphView
ClickPaper ==
  /\ viewState.level = "cluster"
  /\ \E pid \in Papers :
       /\ ClusterOf(pid) = viewState.selectedClusterId
       /\ EnterTopic(handlePaperClick(pid), timeouts)
  /\ UNCHANGED <<pendingFocusClusterId, lastClusterRequestedId, voiceActive, onToolEvent, sessions>>
  /\ UNCHANGED dashboardOthers

\* GraphView opens the paper it is asked to open (requestOpenPaperId)
OpenRequested ==
  /\ viewState.level = "cluster"
  /\ pendingPaperId # Null
  /\ ClusterOf(pendingPaperId) = viewState.selectedClusterId
  /\ EnterTopic(handlePaperClick(pendingPaperId), timeouts)
  /\ UNCHANGED <<pendingFocusClusterId, lastClusterRequestedId, voiceActive, onToolEvent, sessions>>
  /\ UNCHANGED dashboardOthers

\* the Back button of the toolbar, offered outside the universe view
Back ==
  /\ viewState.level # "universe"
  /\ viewState' = IF viewState.level = "topic" THEN handleBackToCluster(viewState) ELSE Universe
  /\ UNCHANGED <<pendingFocusClusterId, pendingPaperId, queuedPaperId, lastClusterRequestedId,
                 delayedOpenTimer, timeouts, voiceActive, onToolEvent, sessions>>
  /\ UNCHANGED dashboardOthers

\* handleTalkClick: starting a voice session installs es.onmessage, which
\* holds the onToolEvent of the render of the click; stopping closes the stream
TalkClick ==
  /\ voiceActive \/ sessions < MaxSessions
  /\ voiceActive' = ~voiceActive
  /\ onToolEvent' = IF ~voiceActive THEN Closure ELSE NoHandler
  /\ sessions' = IF ~voiceActive THEN sessions + 1 ELSE sessions
  /\ UNCHANGED <<viewState, pendingFocusClusterId, pendingPaperId, queuedPaperId,
                 lastClusterRequestedId, delayedOpenTimer, timeouts>>
  /\ UNCHANGED dashboardOthers

\* the navigation both open_cluster and open_paper make towards cluster cid
Navigate(cid) ==
  IF onToolEvent.level = "universe"
  THEN /\ pendingFocusClusterId' = cid
       /\ UNCHANGED viewState
  ELSE /\ viewState' = handleClusterClick(cid)
       /\ UNCHANGED pendingFocusClusterId

\* setTimeout(() => setPendingFocusClusterId(null), 1600) of that navigation
FocusTimeout(ts) ==
  IF onToolEvent.level = "universe"
  THEN ts \cup {[id |-> NewTimer(ts), kind |-> "focus", cid |-> Null, pid |-> Null]}
  ELSE ts


\* tool event open_cluster, its parameters resolved to cluster cid
ToolOpenCluster ==
  /\ voiceActive
  /\ \E cid \in Clusters :
       LET ts1 == FocusTimeout(timeouts)
           ts2 == clearDelayTimer(onToolEvent.delayedOpenTimer, ts1)
           timer == NewTimer(ts1)
       IN /\ Navigate(cid)
          /\ lastClusterRequestedId' = cid
          /\ timeouts' = ts2 \cup {[id |-> timer, kind |-> "cluster", cid |-> cid,
                                    pid |-> onToolEvent.queuedPaperId]}
          /\ delayedOpenTimer' = timer
  /\ Room
  /\ UNCHANGED <<pendingPaperId, queuedPaperId, voiceActive, onToolEvent, sessions>>
  /\ UNCHANGED dashboardOthers

\* tool event open_paper, its parameters resolved to paper pid
OpenPaper(pid) ==
  /\ voiceActive
  /\ LET paperClusterId == ClusterOf(pid) IN
       IF onToolEvent.lastClusterRequestedId = paperClusterId
       THEN /\ queuedPaperId' = pid
            /\ UNCHANGED <<viewState, pendingFocusClusterId, lastClusterRequestedId,
                           delayedOpenTimer, timeouts>>
       ELSE IF onToolEvent.level = "cluster" /\ paperClusterId = onToolEvent.selectedClusterId
       THEN LET ts2 == clearDelayTimer(onToolEvent.delayedOpenTimer, timeouts)
                timer == NewTimer(timeouts)
            IN /\ timeouts' = ts2 \cup {[id |-> timer, kind |-> "paper", cid |-> Null, pid |-> pid]}
               /\ delayedOpenTimer' = timer
               /\ UNCHANGED <<viewState, pendingFocusClusterId, lastClusterRequestedId, queuedPaperId>>
       ELSE LET ts1 == FocusTimeout(timeouts)
                ts2 == clearDelayTimer(onToolEvent.delayedOpenTimer, ts1)
                timer == NewTimer(ts1)
            IN /\ Navigate(paperClusterId)
               /\ lastClusterRequestedId' = paperClusterId
               /\ queuedPaperId' = pid
               /\ timeouts' = ts2 \cup {[id |-> timer, kind |-> "paper", cid |-> Null, pid |-> pid]}
               /\ delayedOpenTimer' = timer
  /\ Room
  /\ UNCHANGED <<pendingPaperId, voiceActive, onToolEvent, sessions>>
  /\ UNCHANGED dashboardOthers

ToolOpenPaper == \E pid \in Papers : OpenPaper(pid)

\* tool event back
ToolBack ==
  /\ voiceActive
  /\ viewState' = IF onToolEvent.level = "topic"
                  THEN handleBackToCluster(onToolEvent)
                  ELSE Universe
  /\ UNCHANGED <<pendingFocusClusterId, pendingPaperId, queuedPaperId, lastClusterRequestedId,
                 delayedOpenTimer, timeouts, voiceActive, onToolEvent, sessions>>
  /\ UNCHANGED dashboardOthers

\* what the callback of timeout t sets the pending paper to
Fired(t) ==
  CASE t.kind = "paper" -> t.pid
    [] t.kind = "cluster" ->
         IF t.pid # Null /\ ClusterOf(t.pid) = t.cid THEN t.pid ELSE pendingPaperId
    [] OTHER -> pendingPaperId

\* timeout t expires and its callback runs
Expire(t) ==
  /\ t \in timeouts
  /\ timeouts' = timeouts \ {t}
  /\ pendingPaperId' = Fired(t)
  /\ pendingFocusClusterId' = IF t.kind = "focus" THEN Null ELSE pendingFocusClusterId
  /\ UNCHANGED <<viewState, queuedPaperId, lastClusterRequestedId, delayedOpenTimer,
                 voiceActive, onToolEvent, sessions>>
  /\ UNCHANGED dashboardOthers

Timeout == \E t \in timeouts : Expire(t)

NextDashboard ==
  \/ ClickCluster \/ FocusCluster \/ ClickPaper \/ OpenRequested \/ Back \/ TalkClick
  \/ ToolOpenCluster \/ ToolOpenPaper \/ ToolBack \/ Timeout

SpecDashboard == InitDashboard /\ [][NextDashboard]_vars

\* the callback of timeout t would set a pending paper
OpensPaper(t) == t.kind = "paper" \/ (t.kind = "cluster" /\ t.pid # Null /\ ClusterOf(t.pid) = t.cid)

\* C15: an open_paper event for a paper whose cluster is the cluster last
\* requested queues the paper, and when the timeout of an open_cluster event
\* for cluster C expires while a paper of C is queued and C is the cluster
\* last requested, that paper becomes the pending paper.
QueuedOpenProp ==
  [][ /\ \A pid \in Papers :
           OpenPaper(pid) /\ lastClusterRequestedId = ClusterOf(pid) => queuedPaperId' = pid
      /\ \A t \in timeouts :
           ( /\ Expire(t) /\ t.kind = "cluster"
             /\ lastClusterRequestedId = t.cid
             /\ queuedPaperId # Null /\ ClusterOf(queuedPaperId) = t.cid )
           => pendingPaperId' = queuedPaperId ]_vars

\* C16: on entering the topic view the queued and the pending paper are null
\* and no timeout that would set a pending paper is outstanding.
TopicClearsProp ==
  [][ viewState.level # "topic" /\ viewState'.level = "topic"
      => /\ queuedPaperId' = Null /\ pendingPaperId' = Null
         /\ \A t \in timeouts' : ~OpensPaper(t) ]_vars

\* the view Back leads to from view vs
BackRule(vs) == IF vs.level = "topic" THEN handleBackToCluster(vs) ELSE Universe

\* C18: Back is offered outside the universe view only; from the topic view
\* it leads to the cluster view of the same cluster with no paper selected,
\* from the cluster view to the universe view with no selection; the back
\* tool event leads from the topic view to that cluster view and from any
\* other view to the universe view.
BackProp ==
  [][ /\ Back => viewState.level # "universe" /\ viewState' = BackRule(viewState)
      /\ ToolBack => viewState' = BackRule(viewState) ]_vars

\* ======================================================= paper detail view
\* the load of no mounted view
NoLoad == [pc |-> "unmounted", summary |-> Null, setSummary |-> FALSE, thrown |-> Null]

InitDetail ==
  /\ paper = Null /\ summary = Null /\ error = Null /\ loading = TRUE /\ overviewGraph = Null
  /\ load = NoLoad
  /\ DetailOthersAtRest

\* load() up to its first await, in the effect of a render whose summary is
\* s: setLoading(true); setError(null)
StartLoad(s) ==
  /\ loading' = TRUE
  /\ error' = Null
  /\ load' = [pc |-> "summary", summary |-> s, setSummary |-> FALSE, thrown |-> Null]

\* PaperDetail is mounted for paper p: fresh state, then the effect
MountDetail ==
  /\ load.pc = "unmounted"
  /\ \E p \in Papers : paper' = p
  /\ summary' = Null /\ overviewGraph' = Null
  /\ StartLoad(Null)
  /\ UNCHANGED detailOthers

\* PaperDetail is unmounted: the load under way is cancelled
UnmountDetail ==
  /\ load.pc # "unmounted"
  /\ paper' = Null /\ summary' = Null /\ error' = Null /\ loading' = TRUE /\ overviewGraph' = Null
  /\ load' = NoLoad
  /\ UNCHANGED detailOthers

\* the paper prop changes: the load under way is cancelled and the effect
\* runs again, in a render that holds the summary shown so far
ChangePaper ==
  /\ load.pc # "unmounted"
  /\ \E p \in Papers \ {paper} : paper' = p
  /\ StartLoad(summary)
  /\ UNCHANGED <<summary, overviewGraph>>
  /\ UNCHANGED detailOthers

\* catch (e) and finally: the error is set if the summary the effect's render
\* held is null
Catch(where, message) ==
  /\ error' = IF load.summary = Null THEN message ELSE error
  /\ loading' = FALSE
  /\ load' = [load EXCEPT !.pc = "done", !.thrown = where]

\* the return of load(), through finally
Return ==
  /\ loading' = FALSE
  /\ load' = [load EXCEPT !.pc = "done"]
  /\ UNCHANGED error

\* the summary and sections requests settle
SummaryResponds ==
  /\ load.pc = "summary"
  /\ \E sRes \in {"ok", "status", "rejected", "malformed"}, secRes \in {"ok", "status", "rejected"} :
       IF sRes = "ok" /\ secRes # "rejected"
       THEN /\ summary' = paper
            /\ load' = [load EXCEPT !.pc = "overview", !.setSummary = TRUE]
            /\ UNCHANGED <<error, loading>>
       ELSE /\ Catch("summary", IF sRes = "status" /\ secRes # "rejected" THEN "Summary" ELSE "Load error")
            /\ UNCHANGED summary
  /\ UNCHANGED <<paper, overviewGraph>>
  /\ UNCHANGED detailOthers

\* the overview graph request settles
OverviewResponds ==
  /\ load.pc = "overview"
  /\ \E ov \in {"ok", "404", "status", "rejected", "malformed"} :
       CASE ov = "ok" -> overviewGraph' = paper /\ Return
         [] ov = "404" -> /\ load' = [load EXCEPT !.pc = "core"]
                          /\ UNCHANGED <<overviewGraph, error, loading>>
         [] ov = "status" -> UNCHANGED overviewGraph /\ Return
         [] OTHER -> UNCHANGED overviewGraph /\ Catch("overview", "Load error")
  /\ UNCHANGED <<paper, summary>>
  /\ UNCHANGED detailOthers

\* the core graph request of the fallback settles; reduceCore may throw
CoreResponds ==
  /\ load.pc = "core"
  /\ \E coreRes \in {"ok", "status", "rejected", "malformed", "TypeError"} :
       CASE coreRes = "ok" -> overviewGraph' = paper /\ Return
         [] coreRes = "status" -> UNCHANGED overviewGraph /\ Return
         [] OTHER -> UNCHANGED overviewGraph /\ Catch("core", "Load error")
  /\ UNCHANGED <<paper, summary>>
  /\ UNCHANGED detailOthers

NextDetail ==
  \/ MountDetail \/ UnmountDetail \/ ChangePaper
  \/ SummaryResponds \/ OverviewResponds \/ CoreResponds

SpecDetail == InitDetail /\ [][NextDetail]_vars

\* C17: when a load has ended after it set the summary, whatever failed
\* while fetching the overview graph or the core graph, the global error is
\* null and the summary of the paper is shown.
SummaryKeptInv ==
  load.pc = "done" /\ load.setSummary => error = Null /\ summary = paper /\ ~loading

\* ======================================================= scientist sidebar
\* events received at most
MaxEvents == 3

\* ms an event may predate the session start and still be taken
DropSlack == 500
\* ms within which a repeated text of a role is suppressed
DedupeWindow == 1500

\* the clock is observed every DropSlack ms
Tick == DropSlack
\* the clock is followed until one tick past the dedupe window
MaxTicks == DedupeWindow \div Tick + 1
Epoch == 2 * Tick
\* the times events carry: two ticks and one tick before the first possible
\* session start
Times == {0, Tick}

\* a ref that holds null
NullRef == [set |-> FALSE, text |-> "", t |-> 0]

\* data.ts || data.timestamp, parsed: absent, not a date, or a time
Timestamps ==
  {[kind |-> "absent", at |-> 0], [kind |-> "NaN", at |-> 0]} \cup {[kind |-> "time", at |-> t] : t \in Times}

\* the events of the stream: data.type, data.text, the timestamp
Events ==
  {[type |-> ty, text |-> tx, ts |-> ts] : ty \in {"user", "agent"}, tx \in {"", "a", "b"}, ts \in Timestamps}
  \cup {[type |-> ty, text |-> "", ts |-> ts] : ty \in {"tool", "meta"}, ts \in Timestamps}

\* variant of Stale with twice the slack
StaleDoubleSlack(evt, dropBefore) ==
  /\ evt.ts.kind # "absent" /\ dropBefore # 0
  /\ evt.ts.kind # "NaN" /\ evt.ts.at < dropBefore - 2 * DropSlack

\* tsStr && dropBeforeTsRef.current && !Number.isNaN(ts) && ts < dropBeforeTsRef.current - 500
Stale(evt, dropBefore) ==
  /\ evt.ts.kind # "absent" /\ dropBefore # 0
  /\ evt.ts.kind # "NaN" /\ evt.ts.at < dropBefore - DropSlack

\* variant of Fresh that forgets the time
FreshByText(last, text, now) == ~last.set \/ last.text # text

\* !last || last.text !== text || now - last.t > 1500
Fresh(last, text, now) == ~last.set \/ last.text # text \/ now - last.t > DedupeWindow

InitSidebar ==
  /\ clock = Epoch
  /\ streamOpen = FALSE
  /\ dropBeforeTsRef = 0
  /\ lastUserRef = NullRef /\ lastBotRef = NullRef
  /\ messages = <<>> /\ forwarded = 0
  /\ chatLog = <<>> /\ received = 0 /\ outcomes = {}
  /\ SidebarOthersAtRest

\* time passes
TickClock ==
  /\ clock < Epoch + MaxTicks * Tick
  /\ clock' = clock + Tick
  /\ UNCHANGED <<streamOpen, dropBeforeTsRef, lastUserRef, lastBotRef, messages, forwarded,
                 chatLog, received, outcomes>>
  /\ UNCHANGED sidebarOthers

\* handleTalkClick with voice off: the chat is cleared, the start time is
\* recorded, the stream is opened
StartVoice ==
  /\ ~streamOpen
  /\ messages' = <<>>
  /\ dropBeforeTsRef' = clock
  /\ streamOpen' = TRUE
  /\ UNCHANGED <<clock, lastUserRef, lastBotRef, forwarded, chatLog, received, outcomes>>
  /\ UNCHANGED sidebarOthers

\* handleTalkClick with voice on: the stream is closed
StopVoice ==
  /\ streamOpen
  /\ streamOpen' = FALSE
  /\ UNCHANGED <<clock, dropBeforeTsRef, lastUserRef, lastBotRef, messages, forwarded,
                 chatLog, received, outcomes>>
  /\ UNCHANGED sidebarOthers

\* setMessages((prev) => [...prev, { role, text }]) and the ref of the role
setMessages(role, text) ==
  /\ messages' = Append(messages, [role |-> role, text |-> text])
  /\ chatLog' = Append(chatLog, [role |-> role, text |-> text, at |-> clock])
  /\ lastUserRef' = IF role = "user" THEN [set |-> TRUE, text |-> text, t |-> clock] ELSE lastUserRef
  /\ lastBotRef' = IF role = "bot" THEN [set |-> TRUE, text |-> text, t |-> clock] ELSE lastBotRef

Skip == UNCHANGED <<messages, chatLog, lastUserRef, lastBotRef>>

\* a message of role `role`, `last` the ref of the role
Message(role, last, text) ==
  IF Fresh(last, text, clock)
  THEN setMessages(role, text) /\ UNCHANGED outcomes
  ELSE Skip /\ outcomes' = outcomes \cup {"suppressed"}

\* es.onmessage for event evt
Receive(evt) ==
  /\ streamOpen
  /\ received < MaxEvents
  /\ received' = received + 1
  /\ IF Stale(evt, dropBeforeTsRef)
     THEN /\ outcomes' = outcomes \cup {"dropped"}
          /\ Skip /\ UNCHANGED forwarded
     ELSE IF evt.type = "user" /\ evt.text # ""
     THEN Message("user", lastUserRef, evt.text) /\ UNCHANGED forwarded
     ELSE IF evt.type = "agent" /\ evt.text # ""
     THEN Message("bot", lastBotRef, evt.text) /\ UNCHANGED forwarded
     ELSE IF evt.type = "tool"
     THEN forwarded' = forwarded + 1 /\ Skip /\ UNCHANGED outcomes
     ELSE Skip /\ UNCHANGED <<forwarded, outcomes>>
  /\ UNCHANGED <<clock, streamOpen, dropBeforeTsRef>>
  /\ UNCHANGED sidebarOthers

OnMessage == \E evt \in Events : Receive(evt)

NextSidebar == TickClock \/ StartVoice \/ StopVoice \/ OnMessage

SpecSidebar == InitSidebar /\ [][NextSidebar]_vars

\* a session has been started and evt carries a time more than 500 ms before
\* its start
Outdated(evt) ==
  dropBeforeTsRef # 0 /\ evt.ts.kind = "time" /\ evt.ts.at < dropBeforeTsRef - 500

\* C19: an event that carries a time more than 500 ms before the recorded
\* session start is neither appended to the chat nor passed to onToolEvent.
\* (stated contrapositively: a step that changes the chat or the count of
\* forwarded tool events is not the receipt of an outdated event)
StaleIgnoredProp ==
  [][ \A evt \in Events :
        Outdated(evt) /\ ~UNCHANGED <<messages, forwarded>> => ~Receive(evt) ]_vars

\* events have been received in a session, one at least dropped as stale,
\* and nothing has reached the chat or onToolEvent
StaleIgnoredWitness ==
  /\ streamOpen /\ outcomes = {"dropped"} /\ received = 2
  /\ messages = <<>> /\ chatLog = <<>> /\ forwarded = 0

\* the chat role of an event type
RoleOf(type) == IF type = "agent" THEN "bot" ELSE type

\* the message of evt is appended to the chat
Appended(evt) == messages' = messages \o <<[role |-> RoleOf(evt.type), text |-> evt.text]>>

\* the positions of the chat log that hold a message of role r
OfRole(log, r) == {i \in 1..Len(log) : log[i].role = r}

\* evt repeats the last appended message of its role at most 1500 ms after it
RepeatsLast(evt) ==
  LET is == OfRole(chatLog, RoleOf(evt.type)) IN
  /\ is # {}
  /\ LET i == CHOOSE k \in is : \A m \in is : m <= k
     IN chatLog[i].text = evt.text /\ clock - chatLog[i].at <= 1500

\* no text was appended twice by one role within 1500 ms
NoRepeat(log) ==
  \A i, j \in 1..Len(log) :
    i < j /\ log[i].role = log[j].role /\ log[i].text = log[j].text
    => log[j].at - log[i].at > 1500

\* no text was appended twice in a row by one role within 1500 ms
NoRepeatInARow(log) ==
  \A i, j \in 1..Len(log) :
    ( /\ i < j /\ log[i].role = log[j].role /\ log[i].text = log[j].text
      /\ \A k \in (i + 1)..(j - 1) : log[k].role # log[i].role )
    => log[j].at - log[i].at > 1500

MaxBuilds == 3
\* nodes of a graph at most
MaxGraphNodes == 3

\* no layout under way
NoLayout == [listeners |-> {}, fallback |-> FALSE]

\* variant of StartLayout that sets no fallback timer
StartLayoutNoFallback(n) ==
  IF n <= 1 THEN NoLayout ELSE [listeners |-> {"layoutstop", "ready"}, fallback |-> FALSE]

\* what a build of a graph of n nodes sets up: nothing for a trivial graph,
\* else the one-shot listeners and the 2000 ms fallback timer
StartLayout(n) ==
  IF n <= 1 THEN NoLayout ELSE [listeners |-> {"layoutstop", "ready"}, fallback |-> TRUE]

InitGraphView ==
  /\ mounted = FALSE /\ nodeCount = 0 /\ isLayingOut = TRUE /\ build = 0
  /\ layout = NoLayout /\ cleared = {} /\ readyTimeouts = {}
  /\ clearedBy = "none"
  /\ GraphViewOthersAtRest

\* the effect on [papers, edges, filters, searchQuery] for a graph of n
\* nodes; the cleanup of the build before it has cleared that build's
\* fallback timer and destroyed its cy with its listeners
BuildGraph(n) ==
  /\ build < MaxBuilds
  /\ build' = build + 1
  /\ nodeCount' = n
  /\ isLayingOut' = ~(n <= 1)
  /\ layout' = StartLayout(n)
  /\ clearedBy' = IF n <= 1 THEN "trivial" ELSE "none"
  /\ UNCHANGED <<cleared, readyTimeouts>>

\* GraphView is mounted
MountGraphView ==
  /\ ~mounted
  /\ mounted' = TRUE
  /\ \E n \in 0..MaxGraphNodes : BuildGraph(n)
  /\ UNCHANGED graphviewOthers

\* the inputs of the mounted view change
RebuildGraph ==
  /\ mounted
  /\ \E n \in 0..MaxGraphNodes : BuildGraph(n)
  /\ UNCHANGED mounted
  /\ UNCHANGED graphviewOthers

\* GraphView is unmounted: the cleanup clears the fallback timer and destroys
\* cy; a later mount starts from useState(true)
UnmountGraphView ==
  /\ mounted
  /\ mounted' = FALSE
  /\ isLayingOut' = TRUE
  /\ layout' = NoLayout
  /\ clearedBy' = "none"
  /\ UNCHANGED <<nodeCount, build, cleared, readyTimeouts>>
  /\ UNCHANGED graphviewOthers

\* clearLoading of build b, called on path `by`; state setters of an
\* unmounted view do nothing
clearLoading(b, by) ==
  IF b \in cleared
  THEN UNCHANGED <<cleared, isLayingOut, clearedBy>>
  ELSE /\ cleared' = cleared \cup {b}
       /\ isLayingOut' = IF mounted THEN FALSE ELSE isLayingOut
       /\ clearedBy' = IF mounted /\ b = build THEN by ELSE clearedBy

\* the layout emits layoutstop
LayoutStop ==
  /\ "layoutstop" \in layout.listeners
  /\ layout' = [layout EXCEPT !.listeners = @ \ {"layoutstop"}]
  /\ clearLoading(build, "layoutstop")
  /\ UNCHANGED <<mounted, nodeCount, build, readyTimeouts>>
  /\ UNCHANGED graphviewOthers

\* cy emits ready: setTimeout(clearLoading, 0)
Ready ==
  /\ "ready" \in layout.listeners
  /\ layout' = [layout EXCEPT !.listeners = @ \ {"ready"}]
  /\ readyTimeouts' = readyTimeouts \cup {build}
  /\ UNCHANGED <<mounted, nodeCount, build, isLayingOut, cleared, clearedBy>>
  /\ UNCHANGED graphviewOthers

\* the zero-delay timeout of build b expires
ReadyTimeout(b) ==
  /\ b \in readyTimeouts
  /\ readyTimeouts' = readyTimeouts \ {b}
  /\ clearLoading(b, "ready")
  /\ UNCHANGED <<mounted, nodeCount, build, layout>>
  /\ UNCHANGED graphviewOthers

AfterReady == \E b \in readyTimeouts : ReadyTimeout(b)

\* the 2000 ms fallback timer expires
FallbackFires ==
  /\ layout.fallback
  /\ layout' = [layout EXCEPT !.fallback = FALSE]
  /\ clearLoading(build, "fallback")
  /\ UNCHANGED <<mounted, nodeCount, build, readyTimeouts>>
  /\ UNCHANGED graphviewOthers

NextGraphView ==
  \/ MountGraphView \/ RebuildGraph \/ UnmountGraphView
  \/ LayoutStop \/ Ready \/ AfterReady \/ FallbackFires

\* a timer that is set and not cleared expires
SpecGraphView == InitGraphView /\ [][NextGraphView]_vars /\ WF_vars(FallbackFires)

\* C21: a build of a graph of at most one node leaves the overlay cleared;
\* in the mounted view the overlay is cleared after layoutstop, after the
\* timeout set on ready and after the fallback timer of the build; and the
\* overlay of every build
\* is eventually cleared unless the graph is built again or the view is
\* unmounted.
OverlayClearedProp ==
  /\ [](mounted /\ nodeCount <= 1 => ~isLayingOut)
  /\ [][mounted /\ (LayoutStop \/ FallbackFires \/ ReadyTimeout(build)) => ~isLayingOut']_vars
  /\ \A b \in 1..MaxBuilds :
       (mounted /\ build = b /\ isLayingOut) ~> (~isLayingOut \/ build # b \/ ~mounted)

\* both events were missed and the fallback timer cleared the overlay
OverlayClearedWitness ==
  /\ mounted /\ nodeCount > 1 /\ ~isLayingOut
  /\ clearedBy = "fallback"
  /\ layout.listeners = {"layoutstop", "ready"}

\* ---------------------------------------------------------------------------
\* The voice client (startVoiceSession and the handle it returns)
\* ---------------------------------------------------------------------------

\* how many sessions are started, how many tracks a microphone stream has,
\* how often stop() is called on one handle
MaxVoiceSessions == 2
MaxTracks == 2
MaxStops == 2

VoiceSessions == 1..MaxVoiceSessions

\* the answers of POST /api/elevenlabs/token: the request itself may fail,
\* the status may be an error, the body may lack the token
TokenResponses ==
  {[network |-> FALSE, ok |-> o, token |-> t] : o \in BOOLEAN, t \in {"", "tok"}}
    \cup {[network |-> TRUE, ok |-> FALSE, token |-> ""]}

\* fetchClientToken: the token of the response, or "throw"
fetchClientToken(res) ==
  IF res.network THEN "throw"
  ELSE IF ~res.ok THEN "throw"
  ELSE IF res.token = "" THEN "throw"
  ELSE res.token

\* micStream while it is null: a stream that has tracks is the sequence of
\* their states
NoStream == <<>>

\* a session whose startVoiceSession has not been called
NoSession ==
  [pc |-> "idle", micStream |-> NoStream, demoTimer |-> "none", stopped |-> FALSE,
   onTool |-> 0, onMessage |-> 0, stopCalls |-> 0]

InitVoice ==
  /\ voice = [s \in VoiceSessions |-> NoSession]
  /\ VoiceOthersAtRest

\* startVoiceSession up to its first await: a token passed in opts is used
\* as it is, otherwise the token is requested
StartVoiceSession(s, given) ==
  /\ voice[s].pc = "idle"
  /\ voice' = [voice EXCEPT ![s].pc = IF given THEN "mic" ELSE "token"]
  /\ UNCHANGED voiceOthers

\* the token request settles: a failure rejects startVoiceSession before
\* anything else of it has run
TokenResponds(s, res) ==
  /\ voice[s].pc = "token"
  /\ voice' = [voice EXCEPT ![s].pc =
                 IF fetchClientToken(res) = "throw" THEN "failed" ELSE "mic"]
  /\ UNCHANGED voiceOthers

\* getUserMedia settles, and the rest of startVoiceSession runs: a denied
\* microphone is reported and leaves no stream; the session is announced,
\* the demo tool event is scheduled and the handle is returned
MicResponds(s, granted, n) ==
  /\ voice[s].pc = "mic"
  /\ voice' = [voice EXCEPT
                 ![s].pc = "running",
                 ![s].micStream = IF granted THEN [t \in 1..n |-> "live"] ELSE NoStream,
                 ![s].onMessage = @ + (IF granted THEN 1 ELSE 2),
                 ![s].demoTimer = "set"]
  /\ UNCHANGED voiceOthers

\* the callback of the demo timer
DemoCallback(v) ==
  [v EXCEPT !.demoTimer = "fired",
            !.onTool = IF ~v.stopped THEN @ + 1 ELSE @]

DemoTimerFires(s) ==
  /\ voice[s].demoTimer = "set"
  /\ voice' = [voice EXCEPT ![s] = DemoCallback(voice[s])]
  /\ UNCHANGED voiceOthers

\* every track of a stream stopped
StopTracks(stream) == [t \in DOMAIN stream |-> "ended"]

\* a stop() that only ends the tracks
stopTracksOnly(v) ==
  [v EXCEPT !.micStream = StopTracks(@),
            !.onMessage = @ + 1,
            !.stopCalls = @ + 1]

\* stop() of the handle
stop(v) ==
  [v EXCEPT !.stopped = TRUE,
            !.demoTimer = IF @ = "set" THEN "cleared" ELSE @,
            !.micStream = StopTracks(@),
            !.onMessage = @ + 1,
            !.stopCalls = @ + 1]

\* the caller stops a session it holds the handle of
StopVoiceSession(s) ==
  /\ voice[s].pc = "running"
  /\ voice[s].stopCalls < MaxStops
  /\ voice' = [voice EXCEPT ![s] = stop(voice[s])]
  /\ UNCHANGED voiceOthers

NextVoice ==
  \/ \E s \in VoiceSessions, given \in BOOLEAN : StartVoiceSession(s, given)
  \/ \E s \in VoiceSessions, res \in TokenResponses : TokenResponds(s, res)
  \/ \E s \in VoiceSessions, granted \in BOOLEAN, n \in 1..MaxTracks :
       MicResponds(s, granted, n)
  \/ \E s \in VoiceSessions : DemoTimerFires(s)
  \/ \E s \in VoiceSessions : StopVoiceSession(s)

SpecVoice == InitVoice /\ [][NextVoice]_vars

\* the tracks of a session that are still live
LiveTracks(v) == {t \in DOMAIN v.micStream : v.micStream[t] = "live"}

\* C22: once stop() has been called on a session's handle, onTool is not
\* invoked for that session again, its demo timer is no longer pending and
\* none of its microphone tracks is live; a session whose token request
\* failed has no handle, no timer, no stream and has called nothing.
VoiceStopProp ==
  /\ [](\A s \in VoiceSessions :
          voice[s].stopCalls > 0 =>
            /\ voice[s].demoTimer # "set"
            /\ LiveTracks(voice[s]) = {})
  /\ [](\A s \in VoiceSessions :
          voice[s].pc = "failed" => voice[s] = [NoSession EXCEPT !.pc = "failed"])
  /\ [][\A s \in VoiceSessions :
          voice[s].stopCalls > 0 => voice'[s].onTool = voice[s].onTool]_vars

\* one session stopped while its demo tool event was pending and its
\* microphone had tracks, another whose token request failed
VoiceStopWitness ==
  /\ \E s \in VoiceSessions :
       /\ voice[s].stopCalls > 0
       /\ voice[s].demoTimer = "cleared"
       /\ voice[s].micStream # NoStream
       /\ voice[s].onTool = 0
  /\ \E s \in VoiceSessions : voice[s].pc = "failed"

\* ---------------------------------------------------------------------------
\* The cluster resolver (normalize, jaccard, resolveClusterId)
\* ---------------------------------------------------------------------------

\* clusters loaded at most, parameters a tool event carries at most
MaxClusters == 2
MaxGiven == 2

\* Strings are sequences of characters. "m" stands for the word
\* macrocluster, "M" for the same word with capitals; "-" and ":" are
\* punctuation.

\* the parameter names in the order resolveClusterId reads them
ParamKeys == <<"clusterId", "id", "cluster", "cluster_name", "name", "label", "topic">>

\* a parameter the tool event does not carry
NoParam == <<"undefined">>

\* the result null, and the resolution not made yet
NoCluster == <<"null">>
Pending == <<"pending">>

\* the non-empty texts a parameter may carry
QueryTexts ==
  { <<"B">>, <<"a", "-", "B">>, <<"c", " ", "a">>, <<"-">> }

\* the values a carried parameter may have: the empty string or a text
GivenValues == {<<>>} \cup QueryTexts

\* the ids of the clusters, by position in graphData.clusters
IdTexts == << <<"C">>, <<"B">>, <<"A">> >>

\* the labels a cluster may have
LabelTexts ==
  { <<"M", " ", ":", " ", "A", "-", "b">>, <<"B">>, <<"a", " ", "b", " ", "c">> }

KeySet == {ParamKeys[i] : i \in 1..Len(ParamKeys)}

\* the parameter records that carry the keys of S
ParamsOn(S) ==
  {[k \in KeySet |-> IF k \in S THEN f[k] ELSE NoParam] : f \in [S -> GivenValues]}

\* the parameter records of a tool event
ParamRecords ==
  UNION {ParamsOn(S) : S \in {T \in SUBSET KeySet : Cardinality(T) <= MaxGiven}}

\* the cluster lists that may be loaded
ClusterLists ==
  UNION {{[i \in 1..n |-> [id |-> IdTexts[i], label |-> l[i]]] : l \in [1..n -> LabelTexts]}
           : n \in 0..MaxClusters}

\* String.prototype.toLowerCase
LowerCase(c) ==
  CASE c = "A" -> "a" [] c = "B" -> "b" [] c = "C" -> "c" [] c = "M" -> "m"
    [] OTHER -> c

toLowerCase(s) == [i \in 1..Len(s) |-> LowerCase(s[i])]

\* the first position from i on that holds no blank (Len(s) + 1 if none)
SkipBlanks(s, i) ==
  CHOOSE j \in i..(Len(s) + 1) :
    /\ j = Len(s) + 1 \/ s[j] # " "
    /\ \A k \in i..(j - 1) : s[k] = " "

\* .replace(/^\s*macrocluster\s*:\s*/, "")
StripMacrocluster(s) ==
  LET i == SkipBlanks(s, 1)
  IN IF i <= Len(s) /\ s[i] = "m"
     THEN LET j == SkipBlanks(s, i + 1)
          IN IF j <= Len(s) /\ s[j] = ":"
             THEN SubSeq(s, SkipBlanks(s, j + 1), Len(s))
             ELSE s
     ELSE s

\* .replace(/[^a-z0-9\s]/g, " ")
ReplaceOthers(s) ==
  [i \in 1..Len(s) |-> IF s[i] \in {"a", "b", "c", "m", " "} THEN s[i] ELSE " "]

\* .replace(/\s+/g, " ")
RECURSIVE CollapseBlanks(_)
CollapseBlanks(s) ==
  IF Len(s) <= 1 THEN s
  ELSE IF s[1] = " " /\ s[2] = " " THEN CollapseBlanks(Tail(s))
       ELSE <<s[1]>> \o CollapseBlanks(Tail(s))

\* .trim()
Trim(s) ==
  LET i == SkipBlanks(s, 1)
      last == {k \in 1..Len(s) : s[k] # " "}
  IN IF last = {} THEN <<>>
     ELSE SubSeq(s, i, CHOOSE k \in last : \A h \in last : h <= k)

normalize(s) ==
  Trim(CollapseBlanks(ReplaceOthers(StripMacrocluster(toLowerCase(s)))))

\* new Set(s.split(" ").filter(Boolean)): the maximal runs without a blank
Tokens(s) ==
  {SubSeq(s, i, j) : <<i, j>> \in
     {ij \in (1..Len(s)) \X (1..Len(s)) :
        /\ ij[1] <= ij[2]
        /\ \A k \in ij[1]..ij[2] : s[k] # " "
        /\ ij[1] = 1 \/ s[ij[1] - 1] = " "
        /\ ij[2] = Len(s) \/ s[ij[2] + 1] = " "}}

\* the threshold 0.5; a similarity is a fraction
Half == [num |-> 1, den |-> 2]

\* x > y and x >= y on fractions
Greater(x, y) == x.num * y.den > y.num * x.den
AtLeast(x, y) == x.num * y.den >= y.num * x.den

jaccard(a, b) ==
  LET A == Tokens(normalize(a))
      B == Tokens(normalize(b))
      inter == Cardinality(A \cap B)
      union == Cardinality(A) + Cardinality(B) - inter
  IN IF A = {} /\ B = {} THEN [num |-> 1, den |-> 1]
     ELSE IF union = 0 THEN [num |-> 0, den |-> 1]
     ELSE [num |-> inter, den |-> union]

\* a.startsWith(b)
startsWith(a, b) == Len(b) <= Len(a) /\ SubSeq(a, 1, Len(b)) = b

\* [...].filter(Boolean): the carried, non-empty values in the order of the keys
Boolean(v) == v # NoParam /\ v # <<>>

\* a parameter the tool event carries, whatever its value
Carried(v) == v # NoParam

\* variant of Candidates that keeps the parameters carried empty
CandidatesCarried(p) == SelectSeq([i \in 1..Len(ParamKeys) |-> p[ParamKeys[i]]], Carried)

Candidates(p) == SelectSeq([i \in 1..Len(ParamKeys) |-> p[ParamKeys[i]]], Boolean)

\* Array.prototype.find, given the positions that pass the test: the first
\* of them, 0 for undefined
find(hits) ==
  IF hits = {} THEN 0 ELSE CHOOSE i \in hits : \A h \in hits : i <= h

\* the loop over the clusters that keeps the first strictly best score
RECURSIVE BestFrom(_, _, _, _)
BestFrom(clusters, nq, i, acc) ==
  IF i > Len(clusters) THEN acc
  ELSE LET sc == jaccard(clusters[i].label, nq)
       IN BestFrom(clusters, nq, i + 1,
                   IF Greater(sc, acc.best)
                   THEN [best |-> sc, bestId |-> clusters[i].id]
                   ELSE acc)

resolveClusterId(p, clusters) ==
  LET candidates == Candidates(p)
  IN IF Len(candidates) = 0 THEN NoCluster
     ELSE
       LET query == candidates[1]
           nq == normalize(query)
           IdIs(c) == toLowerCase(c.id) = toLowerCase(query)
           LabelIs(c) == normalize(c.label) = nq
           LabelStarts(c) == startsWith(normalize(c.label), nq)
           byId == find({i \in 1..Len(clusters) : IdIs(clusters[i])})
           exact == find({i \in 1..Len(clusters) : LabelIs(clusters[i])})
           starts == find({i \in 1..Len(clusters) : LabelStarts(clusters[i])})
           loop == BestFrom(clusters, nq, 1, [best |-> [num |-> 0, den |-> 1], bestId |-> NoCluster])
       IN IF byId # 0 THEN clusters[byId].id
          ELSE IF exact # 0 THEN clusters[exact].id
          ELSE IF starts # 0 THEN clusters[starts].id
          ELSE IF AtLeast(loop.best, Half) THEN loop.bestId
          ELSE NoCluster

\* the clusters are loaded and a tool event has arrived
InitResolver ==
  /\ params \in ParamRecords
  /\ graphData \in ClusterLists
  /\ resolved = Pending
  /\ ResolverOthersAtRest

\* the parameters of the tool event are resolved against the clusters loaded
ResolveCluster ==
  /\ resolved = Pending
  /\ resolved' = resolveClusterId(params, graphData)
  /\ UNCHANGED <<params, graphData>>
  /\ UNCHANGED resolverOthers

NextResolver == ResolveCluster

SpecResolver == InitResolver /\ [][NextResolver]_vars

\* the least element of a non-empty set of positions
Least(S) == CHOOSE i \in S : \A h \in S : i <= h

\* the value of the first parameter, in the order of the keys, among the
\* positions hits; NoParam if there is none
FirstParam(p, hits) ==
  IF hits = {} THEN NoParam ELSE p[ParamKeys[Least(hits)]]

\* the results the priority rule allows for the query q: the cluster whose
\* id is q up to case; else the first whose normalized label is the
\* normalized q; else the first whose normalized label starts with it; else
\* a cluster of highest Jaccard similarity to q if that is at least one
\* half; else null
RuleResults(q, clusters) ==
  LET all == 1..Len(clusters)
      nq == normalize(q)
      ids == {i \in all : toLowerCase(clusters[i].id) = toLowerCase(q)}
      eq == {i \in all : normalize(clusters[i].label) = nq}
      pre == {i \in all : startsWith(normalize(clusters[i].label), nq)}
      top == {i \in all : \A h \in all :
                AtLeast(jaccard(clusters[i].label, q), jaccard(clusters[h].label, q))}
  IN IF ids # {} THEN {clusters[i].id : i \in ids}
     ELSE IF eq # {} THEN {clusters[Least(eq)].id}
     ELSE IF pre # {} THEN {clusters[Least(pre)].id}
     ELSE IF \E i \in top : AtLeast(jaccard(clusters[i].label, q), Half)
          THEN {clusters[i].id : i \in top}
     ELSE {NoCluster}

\* the result is null or the id of a cluster loaded, and it is what the
\* priority rule allows for the query q (null if there is no query)
FollowsRule(q) ==
  /\ resolved \in {NoCluster} \cup {graphData[i].id : i \in 1..Len(graphData)}
  /\ IF q = NoParam THEN resolved = NoCluster
     ELSE resolved \in RuleResults(q, graphData)

====
